---- MODULE Spec2Model ----
(***************************************************************************)
(* TList: an indexable list kept as a Red-Black tree whose key is the      *)
(* rank of an element, stored in an arena (a Vec of Option<Node>) with a   *)
(* free list of slot indices (src/src/lib.rs).                             *)
(*                                                                         *)
(* Option<X> is modelled as a sequence of length at most one: None is      *)
(* <<>> and Some(x) is <<x>>.  Arena slot i (0-based, as in the source) is *)
(* node_list[i + 1].  A payload is opaque to the container (T: Sized, never *)
(* compared), so payloads are distinct tags: from_data is given 0..n-1 and *)
(* every later insertion stores the tag len().                             *)
(***************************************************************************)
EXTENDS Integers, Sequences, FiniteSets, TLC

\* ------------------------------------------------------------- bounds
\* insertions at every rank 0..len() while len() < MaxLen
MaxLen == 4
\* beyond that, insertions at the ranks 0, len()/2 and len() while len() < MaxDeep,
\* in a run that used no other rank
MaxDeep == 8
\* with_capacity(c) for c in 0..MaxCap
MaxCap == 1
\* from_data(S) for |S| in 0..MaxData
MaxData == 10
\* rotations are applied to trees of up to MaxRot nodes
MaxRot == 5

\* const INITIAL_SIZE: usize = 256
INITIAL_SIZE == 256

\* ------------------------------------------------------------- Option
None == <<>>
Some(x) == <<x>>
IsSome(o) == o /= <<>>
Unwrap(o) == o[1]

\* let v = e; Op(v): e is evaluated once and handed on as a value
The(S) == CHOOSE v \in S : TRUE
Bind(e, Op(_)) == The({Op(v) : v \in {e}})

\* Node::new_leaf
new_leaf(elem, color) ==
    [data |-> elem, color |-> color, parent |-> None,
     left |-> None, right |-> None, size |-> 1]

\* self.node_list[i] (i is 0-based and in bounds)
Slot(nl, i) == nl[i + 1]
\* self.node_list[i] = v
SetSlot(nl, i, v) == [nl EXCEPT ![i + 1] = v]
\* self.node_list[i].as_mut().map(|n| n.<f> = v): nothing happens on a None slot
MapField(nl, i, f, v) ==
    IF IsSome(Slot(nl, i))
    THEN SetSlot(nl, i, Some([Unwrap(Slot(nl, i)) EXCEPT ![f] = v]))
    ELSE nl

\* TList::len on the parts
LenOf(nl, fl) == Len(nl) - Len(fl)

\* range 0..n-1 as a sequence
RangeSeq(lo, n) == [i \in 1..n |-> lo + i - 1]

\* TList::with_capacity
with_capacity(capacity) ==
    [nl |-> [i \in 1..capacity |-> None],
     fl |-> RangeSeq(0, capacity),
     root |-> 0]

\* ------------------------------------------------------------- accessors
\* TList::get_child_idx
get_child_idx(nl, index, dir) ==
    IF IsSome(Slot(nl, index))
    THEN IF dir = "Left" THEN Unwrap(Slot(nl, index)).left
                         ELSE Unwrap(Slot(nl, index)).right
    ELSE None

\* TList::get_parent_idx
get_parent_idx(nl, index) ==
    IF IsSome(Slot(nl, index)) THEN Unwrap(Slot(nl, index)).parent ELSE None

\* TList::get_grandparent_idx
get_grandparent_idx(nl, index) ==
    Bind(get_parent_idx(nl, index), LAMBDA p :
        IF IsSome(p) THEN get_parent_idx(nl, Unwrap(p)) ELSE None)

\* get_child_size reaching its "No node at listed child!" branch
ChildDangling(nl, index, dir) ==
    Bind(get_child_idx(nl, index, dir), LAMBDA c :
        IsSome(c) /\ ~IsSome(Slot(nl, Unwrap(c))))

\* TList::get_child_size (the value of the build without cfg!(test))
get_child_size(nl, index, dir) ==
    Bind(get_child_idx(nl, index, dir), LAMBDA c :
        IF IsSome(c)
        THEN IF IsSome(Slot(nl, Unwrap(c))) THEN Unwrap(Slot(nl, Unwrap(c))).size ELSE 0
        ELSE 0)

\* realloc that grows the arena by a single slot
realloc_by_one(nl, fl) ==
    <<nl \o <<None>>, fl, Len(nl)>>

\* realloc that grows the arena and hands out the last new slot, leaving the
\* other new slots off the free list
realloc_unseeded(nl, fl) ==
    LET current_len == LenOf(nl, fl)
        additional == 1 + (current_len \div 2)
    IN  <<nl \o [i \in 1..additional |-> None], fl, Len(nl) + additional - 1>>

\* ------------------------------------------------------------- arena
\* TList::realloc: returns <<node_list, free_list, handle>>
realloc(nl, fl) ==
    LET current_len == LenOf(nl, fl)
        additional == 1 + (current_len \div 2)
    IN  Bind(fl \o [i \in 1..additional |-> (i - 1) + current_len], LAMBDA fl2 :
            <<nl \o [i \in 1..additional |-> None],
              SubSeq(fl2, 1, Len(fl2) - 1),
              fl2[Len(fl2)]>>)

\* add_leaf storing a Black leaf
add_leaf_black(nl, fl, elem) ==
    Bind(IF Len(fl) > 0
         THEN <<nl, SubSeq(fl, 1, Len(fl) - 1), fl[Len(fl)]>>
         ELSE realloc(nl, fl),
         LAMBDA got :
            <<SetSlot(got[1], got[3], Some(new_leaf(elem, "Black"))), got[2], got[3]>>)

\* TList::add_leaf: returns <<node_list, free_list, insert_idx>>
add_leaf(nl, fl, elem) ==
    Bind(IF Len(fl) > 0
         THEN <<nl, SubSeq(fl, 1, Len(fl) - 1), fl[Len(fl)]>>
         ELSE realloc(nl, fl),
         LAMBDA got :
            <<SetSlot(got[1], got[3], Some(new_leaf(elem, "Red"))), got[2], got[3]>>)

\* ------------------------------------------------------------- rotations
\* A step of a mutating call works on s = [nl, root, fault, ev]: the arena, the
\* root handle, the fault that ended the call ("none" while it runs) and the
\* trace of what the call did.
Fault(s, why) == [s EXCEPT !.fault = why]
Note(s, what) == [s EXCEPT !.ev = Append(@, what)]

\* a rotation that leaves the sizes as they were
resize_skipped(s, idx, test) == s

\* the size recomputation closing a rotation (lib.rs 645-661), for node idx
resize(s, idx, test) ==
    IF s.fault /= "none" THEN s
    ELSE IF test /\ (ChildDangling(s.nl, idx, "Left") \/ ChildDangling(s.nl, idx, "Right"))
    THEN Fault(s, "panic: No node at listed child!")
    ELSE [s EXCEPT !.nl = MapField(s.nl, idx, "size",
              get_child_size(s.nl, idx, "Left") + get_child_size(s.nl, idx, "Right") + 1)]

\* a redirection that always writes the left link of the parent
reparent_left_only(nl, h_parent, h_idx, y_idx) ==
    IF IsSome(h_parent) /\ IsSome(Slot(nl, Unwrap(h_parent)))
    THEN MapField(nl, Unwrap(h_parent), "left", Some(y_idx))
    ELSE nl

\* h_node.parent's child link to h_idx redirected to y_idx (lib.rs 623-636)
reparent(nl, h_parent, h_idx, y_idx) ==
    IF IsSome(h_parent) /\ IsSome(Slot(nl, Unwrap(h_parent)))
    THEN IF Unwrap(Slot(nl, Unwrap(h_parent))).left = Some(h_idx)
         THEN MapField(nl, Unwrap(h_parent), "left", Some(y_idx))
         ELSE MapField(nl, Unwrap(h_parent), "right", Some(y_idx))
    ELSE nl

\* a relinking that leaves the parent link of the transferred grandchild alone
relink_grandchild_kept(s, nl, h_idx, h, y_idx, y, pivot, inner) ==
    Bind(IF IsSome(h.parent) /\ IsSome(Slot(nl, Unwrap(h.parent)))
         THEN IF Unwrap(Slot(nl, Unwrap(h.parent))).left = Some(h_idx)
              THEN MapField(nl, Unwrap(h.parent), "left", Some(y_idx))
              ELSE MapField(nl, Unwrap(h.parent), "right", Some(y_idx))
         ELSE nl, LAMBDA nl3 :
        [s EXCEPT
            !.nl = SetSlot(SetSlot(nl3,
                       h_idx, Some([h EXCEPT ![pivot] = y[inner], !.parent = Some(y_idx)])),
                       y_idx, Some([y EXCEPT !.parent = h.parent, ![inner] = Some(h_idx)])),
            !.root = IF IsSome(h.parent) THEN s.root ELSE y_idx,
            !.ev = Append(@, "rotate")])

\* a relinking that also exchanges the colours of h and y
relink_recoloured(s, nl, h_idx, h, y_idx, y, pivot, inner) ==
    Bind(IF IsSome(y[inner])
         THEN MapField(nl, Unwrap(y[inner]), "parent", Some(h_idx))
         ELSE nl,
         LAMBDA nl2 :
    Bind(IF IsSome(h.parent) /\ IsSome(Slot(nl2, Unwrap(h.parent)))
         THEN IF Unwrap(Slot(nl2, Unwrap(h.parent))).left = Some(h_idx)
              THEN MapField(nl2, Unwrap(h.parent), "left", Some(y_idx))
              ELSE MapField(nl2, Unwrap(h.parent), "right", Some(y_idx))
         ELSE nl2, LAMBDA nl3 :
        [s EXCEPT
            !.nl = SetSlot(SetSlot(nl3,
                       h_idx, Some([h EXCEPT ![pivot] = y[inner], !.parent = Some(y_idx),
                                             !.color = y.color])),
                       y_idx, Some([y EXCEPT !.parent = h.parent, ![inner] = Some(h_idx),
                                             !.color = h.color])),
            !.root = IF IsSome(h.parent) THEN s.root ELSE y_idx,
            !.ev = Append(@, "rotate")]))

\* a relinking that also exchanges the payloads of h and y
relink_payloads_swapped(s, nl, h_idx, h, y_idx, y, pivot, inner) ==
    Bind(IF IsSome(y[inner])
         THEN MapField(nl, Unwrap(y[inner]), "parent", Some(h_idx))
         ELSE nl,
         LAMBDA nl2 :
    Bind(IF IsSome(h.parent) /\ IsSome(Slot(nl2, Unwrap(h.parent)))
         THEN IF Unwrap(Slot(nl2, Unwrap(h.parent))).left = Some(h_idx)
              THEN MapField(nl2, Unwrap(h.parent), "left", Some(y_idx))
              ELSE MapField(nl2, Unwrap(h.parent), "right", Some(y_idx))
         ELSE nl2, LAMBDA nl3 :
        [s EXCEPT
            !.nl = SetSlot(SetSlot(nl3,
                       h_idx, Some([h EXCEPT ![pivot] = y[inner], !.parent = Some(y_idx),
                                             !.data = y.data])),
                       y_idx, Some([y EXCEPT !.parent = h.parent, ![inner] = Some(h_idx),
                                             !.data = h.data])),
            !.root = IF IsSome(h.parent) THEN s.root ELSE y_idx,
            !.ev = Append(@, "rotate")]))

\* the relinking of a rotation once h and its pivot child y are both taken out
\* of the arena (nl has None at h_idx and y_idx); pivot is the link of h that
\* holds y ("right" for left_rotate), inner the opposite link (lib.rs 618-643)
relink(s, nl, h_idx, h, y_idx, y, pivot, inner) ==
    Bind(IF IsSome(y[inner])
         THEN MapField(nl, Unwrap(y[inner]), "parent", Some(h_idx))
         ELSE nl,
         LAMBDA nl2 :
    Bind(reparent(nl2, h.parent, h_idx, y_idx), LAMBDA nl3 :
        [s EXCEPT
            !.nl = SetSlot(SetSlot(nl3,
                       h_idx, Some([h EXCEPT ![pivot] = y[inner], !.parent = Some(y_idx)])),
                       y_idx, Some([y EXCEPT !.parent = h.parent, ![inner] = Some(h_idx)])),
            !.root = IF IsSome(h.parent) THEN s.root ELSE y_idx,
            !.ev = Append(@, "rotate")]))

\* a rotation that recomputes the size of the pivot before the size of h
rotate_resized_top_down(s, h_idx, pivot, inner, test) ==
    Bind(Slot(s.nl, h_idx), LAMBDA h_node_opt :
    Bind(SetSlot(s.nl, h_idx, None), LAMBDA nl0 :
        IF ~IsSome(h_node_opt)
        THEN IF test THEN Fault(s, "panic: rotation of an empty slot")
             ELSE Note([s EXCEPT !.nl = nl0], "rotate_no_node")
        ELSE IF ~IsSome(Unwrap(h_node_opt)[pivot])
        THEN IF test THEN Fault(s, "panic: rotation without pivot child")
             ELSE Note(s, "rotate_no_pivot")
        ELSE Bind(Unwrap(Unwrap(h_node_opt)[pivot]), LAMBDA y_idx :
             Bind(Slot(nl0, y_idx), LAMBDA y_opt :
                IF ~IsSome(y_opt)
                THEN IF test THEN Fault(s, "panic: rotation without pivot child")
                     ELSE Note([s EXCEPT !.nl =
                                   SetSlot(SetSlot(nl0, y_idx, None), h_idx, h_node_opt)],
                               "rotate_no_pivot")
                ELSE Bind(relink(s, SetSlot(nl0, y_idx, None), h_idx, Unwrap(h_node_opt),
                                 y_idx, Unwrap(y_opt), pivot, inner), LAMBDA s1 :
                     Bind(resize(s1, y_idx, test), LAMBDA s2 :
                        resize(s2, h_idx, test)))))))

\* left_rotate / right_rotate share this body, mirrored by (pivot, inner)
rotate(s, h_idx, pivot, inner, test) ==
    Bind(Slot(s.nl, h_idx), LAMBDA h_node_opt :
    Bind(SetSlot(s.nl, h_idx, None), LAMBDA nl0 :
        IF ~IsSome(h_node_opt)
        THEN IF test THEN Fault(s, "panic: rotation of an empty slot")
             ELSE Note([s EXCEPT !.nl = nl0], "rotate_no_node")
        ELSE IF ~IsSome(Unwrap(h_node_opt)[pivot])
        THEN IF test THEN Fault(s, "panic: rotation without pivot child")
             ELSE Note(s, "rotate_no_pivot")
        ELSE Bind(Unwrap(Unwrap(h_node_opt)[pivot]), LAMBDA y_idx :
             Bind(Slot(nl0, y_idx), LAMBDA y_opt :
                IF ~IsSome(y_opt)
                THEN IF test THEN Fault(s, "panic: rotation without pivot child")
                     ELSE Note([s EXCEPT !.nl =
                                   SetSlot(SetSlot(nl0, y_idx, None), h_idx, h_node_opt)],
                               "rotate_no_pivot")
                ELSE Bind(relink(s, SetSlot(nl0, y_idx, None), h_idx, Unwrap(h_node_opt),
                                 y_idx, Unwrap(y_opt), pivot, inner), LAMBDA s1 :
                     Bind(resize(s1, h_idx, test), LAMBDA s2 :
                        resize(s2, y_idx, test)))))))

\* TList::left_rotate
left_rotate(s, h_idx, test) == rotate(s, h_idx, "right", "left", test)

\* TList::right_rotate
right_rotate(s, h_idx, test) == rotate(s, h_idx, "left", "right", test)

\* ------------------------------------------------------------- insert_fix_up
\* and_then(|i| node_list[i].as_ref()).map(|n| n.color)
color_of(nl, o) ==
    IF IsSome(o) /\ IsSome(Slot(nl, Unwrap(o))) THEN Some(Unwrap(Slot(nl, Unwrap(o))).color)
    ELSE None

\* if Some(c) == node_list[p].as_ref().and_then(|n| n.left) { Left } else { Right }
dir_of(nl, c, p) == IF Some(c) = get_child_idx(nl, p, "Left") THEN "Left" ELSE "Right"

\* case 3 that recolours and then leaves out the rotation at the grandparent
\* wherever that rotation would have relinked the nodes
fix_case3_unrotated(s1, z1, gp_idx, z_p_dir, test) ==
    Bind(get_parent_idx(s1.nl, z1), LAMBDA p1 :
    Bind(IF IsSome(p1) THEN MapField(s1.nl, Unwrap(p1), "color", "Black") ELSE s1.nl,
         LAMBDA nl2 :
    Bind(get_grandparent_idx(nl2, z1), LAMBDA n_gp :
        IF ~IsSome(n_gp)
        THEN [s |-> IF test THEN Fault([s1 EXCEPT !.nl = nl2], "panic: Panic in Case 3!")
                    ELSE Note([s1 EXCEPT !.nl = nl2], "case3_no_grandparent"),
              z |-> z1, done |-> TRUE]
        ELSE Bind(Note([s1 EXCEPT !.nl = MapField(nl2, Unwrap(n_gp), "color", "Red")],
                       "case3"), LAMBDA s3 :
             Bind(IF z_p_dir = "Left" THEN right_rotate(s3, gp_idx, test)
                                      ELSE left_rotate(s3, gp_idx, test), LAMBDA s4 :
                [s |-> IF s4.fault = "none" /\ s4.ev[Len(s4.ev)] = "rotate" THEN s3 ELSE s4,
                 z |-> z1, done |-> s4.fault /= "none"])))))

\* case 3 that leaves the parent of z Red before rotating at the grandparent
fix_case3_parent_kept(s1, z1, gp_idx, z_p_dir, test) ==
    Bind(get_grandparent_idx(s1.nl, z1), LAMBDA n_gp :
        IF ~IsSome(n_gp)
        THEN [s |-> IF test THEN Fault(s1, "panic: Panic in Case 3!")
                    ELSE Note(s1, "case3_no_grandparent"),
              z |-> z1, done |-> TRUE]
        ELSE Bind(Note([s1 EXCEPT !.nl = MapField(s1.nl, Unwrap(n_gp), "color", "Red")],
                       "case3"), LAMBDA s3 :
             Bind(IF z_p_dir = "Left" THEN right_rotate(s3, gp_idx, test)
                                      ELSE left_rotate(s3, gp_idx, test), LAMBDA s4 :
                [s |-> s4, z |-> z1, done |-> s4.fault /= "none"])))

\* CLRS case 3 (lib.rs 538-558) for z1, after any case 2 rotation: [s, z, done]
fix_case3(s1, z1, gp_idx, z_p_dir, test) ==
    Bind(get_parent_idx(s1.nl, z1), LAMBDA p1 :
    Bind(IF IsSome(p1) THEN MapField(s1.nl, Unwrap(p1), "color", "Black") ELSE s1.nl,
         LAMBDA nl2 :
    Bind(get_grandparent_idx(nl2, z1), LAMBDA n_gp :
        IF ~IsSome(n_gp)
        THEN [s |-> IF test THEN Fault([s1 EXCEPT !.nl = nl2], "panic: Panic in Case 3!")
                    ELSE Note([s1 EXCEPT !.nl = nl2], "case3_no_grandparent"),
              z |-> z1, done |-> TRUE]
        ELSE Bind(Note([s1 EXCEPT !.nl = MapField(nl2, Unwrap(n_gp), "color", "Red")],
                       "case3"), LAMBDA s3 :
             Bind(IF z_p_dir = "Left" THEN right_rotate(s3, gp_idx, test)
                                      ELSE left_rotate(s3, gp_idx, test), LAMBDA s4 :
                [s |-> s4, z |-> z1, done |-> s4.fault /= "none"])))))

\* the else branch of the repair loop (uncle Black or absent), lib.rs 513-559:
\* returns [s, z, done]
fix_case23(s, z_idx, z_p, gp_idx, test) ==
    Bind(dir_of(s.nl, z_p, gp_idx), LAMBDA z_p_dir :
    Bind(dir_of(s.nl, z_idx, z_p), LAMBDA z_dir :
        IF z_dir /= z_p_dir
        THEN Bind(IF z_p_dir = "Left" THEN left_rotate(Note(s, "case2"), z_p, test)
                                      ELSE right_rotate(Note(s, "case2"), z_p, test),
                  LAMBDA s1 :
                    IF s1.fault /= "none" THEN [s |-> s1, z |-> z_p, done |-> TRUE]
                    ELSE fix_case3(s1, z_p, gp_idx, z_p_dir, test))
        ELSE fix_case3(s, z_idx, gp_idx, z_p_dir, test)))

\* CLRS case 1 (lib.rs 499-512): uncle Red
fix_case1(s, y_idx, z_p, gp_idx) ==
    Bind(MapField(s.nl, Unwrap(y_idx), "color", "Black"), LAMBDA nl1 :
    Bind(MapField(nl1, z_p, "color", "Black"), LAMBDA nl2 :
        [s |-> Note([s EXCEPT !.nl = MapField(nl2, gp_idx, "color", "Red")], "case1"),
         z |-> gp_idx, done |-> FALSE]))

\* one pass of the repair loop, lib.rs 464-560: returns [s, z, done]
fix_step(s, z_idx, test) ==
    Bind(get_parent_idx(s.nl, z_idx), LAMBDA zp_opt :
        IF ~IsSome(zp_opt) THEN [s |-> s, z |-> z_idx, done |-> TRUE]
        ELSE IF ~(IsSome(Slot(s.nl, Unwrap(zp_opt)))
                  /\ Unwrap(Slot(s.nl, Unwrap(zp_opt))).color = "Red")
        THEN [s |-> s, z |-> z_idx, done |-> TRUE]
        ELSE Bind(get_grandparent_idx(s.nl, z_idx), LAMBDA gp_opt :
            IF ~IsSome(gp_opt)
            THEN [s |-> Fault(s, "panic: Grandparent should exist!"),
                  z |-> z_idx, done |-> TRUE]
            ELSE IF ~IsSome(Slot(s.nl, Unwrap(gp_opt)))
            THEN [s |-> Fault(s, "panic: unwrap of an empty grandparent slot"),
                  z |-> z_idx, done |-> TRUE]
            ELSE Bind(Unwrap(Slot(s.nl, Unwrap(gp_opt))), LAMBDA gp_node :
                 Bind(IF gp_node.left = zp_opt THEN gp_node.right ELSE gp_node.left,
                      LAMBDA y_idx :
                    IF color_of(s.nl, y_idx) = Some("Red")
                    THEN fix_case1(s, y_idx, Unwrap(zp_opt), Unwrap(gp_opt))
                    ELSE fix_case23(s, z_idx, Unwrap(zp_opt), Unwrap(gp_opt), test)))))

\* the repair loop: a pass that ends where it began (same arena, same root,
\* same z) repeats for ever, the loop being deterministic
RECURSIVE fix_loop(_, _, _)
fix_loop(s, z_idx, test) ==
    Bind(fix_step(s, z_idx, test), LAMBDA r :
        IF r.done THEN r.s
        ELSE IF r.s.nl = s.nl /\ r.s.root = s.root /\ r.z = z_idx
        THEN Fault(r.s, "hang: insert_fix_up")
        ELSE fix_loop(r.s, r.z, test))

\* insert_fix_up without the final recolouring of the root
insert_fix_up_root_kept(s, index, test) ==
    Bind(fix_loop(s, index, test), LAMBDA s1 :
        IF s1.fault /= "none" THEN s1
        ELSE IF ~IsSome(Slot(s1.nl, s1.root))
        THEN Fault(s1, "panic: unwrap of an empty root slot")
        ELSE s1)

\* TList::insert_fix_up
insert_fix_up(s, index, test) ==
    Bind(fix_loop(s, index, test), LAMBDA s1 :
        IF s1.fault /= "none" THEN s1
        ELSE IF ~IsSome(Slot(s1.nl, s1.root))
        THEN Fault(s1, "panic: unwrap of an empty root slot")
        ELSE [s1 EXCEPT !.nl = MapField(s1.nl, s1.root, "color", "Black")])

\* ------------------------------------------------------------- insert, push
\* the descent loop of TList::insert, lib.rs 211-254: returns [nl, fault]
RECURSIVE insert_descend(_, _, _, _, _)
insert_descend(nl, search_idx, target_rank, insert_idx, test) ==
    Bind(IF IsSome(Slot(nl, search_idx))
         THEN MapField(nl, search_idx, "size", Unwrap(Slot(nl, search_idx)).size + 1)
         ELSE nl,
         LAMBDA nl1 :
    Bind(get_child_size(nl1, search_idx, "Left"), LAMBDA rank :
    Bind(get_child_idx(nl1, search_idx, IF target_rank > rank THEN "Right" ELSE "Left"),
         LAMBDA next :
        IF test /\ ChildDangling(nl1, search_idx, "Left")
        THEN [nl |-> nl1, fault |-> "panic: No node at listed child!"]
        ELSE IF IsSome(next)
        THEN Bind(IF target_rank > rank THEN target_rank - (rank + 1) ELSE target_rank,
                  LAMBDA rest :
                    insert_descend(nl1, Unwrap(next), rest, insert_idx, test))
        ELSE Bind(MapField(nl1, search_idx,
                           IF target_rank > rank THEN "right" ELSE "left",
                           Some(insert_idx)), LAMBDA nl2 :
                [nl |-> MapField(nl2, insert_idx, "parent", Some(search_idx)),
                 fault |-> "none"]))))

\* insert with the descent aimed one rank too low
insert_off_by_one(tl, elem, index, test) ==
    Bind(add_leaf(tl.nl, tl.fl, elem), LAMBDA a :
    Bind(insert_descend(a[1], tl.root, IF index > 0 THEN index - 1 ELSE 0, a[3], test),
         LAMBDA d :
    Bind([nl |-> d.nl, root |-> tl.root, fault |-> d.fault, ev |-> <<>>], LAMBDA s :
    Bind(IF d.fault /= "none" THEN s ELSE insert_fix_up(s, a[3], test), LAMBDA f :
        [nl |-> f.nl, fl |-> a[2], root |-> f.root, fault |-> f.fault, ev |-> f.ev]))))

\* TList::insert on tl = [nl, fl, root]: returns [nl, fl, root, fault, ev]
insert(tl, elem, index, test) ==
    Bind(add_leaf(tl.nl, tl.fl, elem), LAMBDA a :
    Bind(insert_descend(a[1], tl.root, index, a[3], test), LAMBDA d :
    Bind([nl |-> d.nl, root |-> tl.root, fault |-> d.fault, ev |-> <<>>], LAMBDA s :
    Bind(IF d.fault /= "none" THEN s ELSE insert_fix_up(s, a[3], test), LAMBDA f :
        [nl |-> f.nl, fl |-> a[2], root |-> f.root, fault |-> f.fault, ev |-> f.ev]))))

\* push that puts the element in front of a non-empty list
push_front(tl, elem, test) ==
    IF LenOf(tl.nl, tl.fl) = 0
    THEN Bind(add_leaf(tl.nl, tl.fl, elem), LAMBDA a :
            [nl |-> MapField(a[1], a[3], "color", "Black"), fl |-> a[2], root |-> a[3],
             fault |-> "none", ev |-> <<"push_root">>])
    ELSE insert(tl, elem, 0, test)

\* TList::push
push(tl, elem, test) ==
    IF LenOf(tl.nl, tl.fl) = 0
    THEN Bind(add_leaf(tl.nl, tl.fl, elem), LAMBDA a :
            [nl |-> MapField(a[1], a[3], "color", "Black"), fl |-> a[2], root |-> a[3],
             fault |-> "none", ev |-> <<"push_root">>])
    ELSE insert(tl, elem, LenOf(tl.nl, tl.fl), test)

\* insert_or_push that hands every index to insert
insert_or_push_unguarded(tl, elem, index, test) ==
    insert(tl, elem, IF index >= LenOf(tl.nl, tl.fl) THEN LenOf(tl.nl, tl.fl) ELSE index,
           test)

\* TList::insert_or_push
insert_or_push(tl, elem, index, test) ==
    IF index >= LenOf(tl.nl, tl.fl) THEN push(tl, elem, test)
    ELSE insert(tl, elem, index, test)

\* ------------------------------------------------------------- search, get
\* the loop of TList::search, lib.rs 753-786: returns [fault, ret]
RECURSIVE search_loop(_, _, _, _)
search_loop(nl, search_idx, index, test) ==
    IF search_idx >= Len(nl)
    THEN [fault |-> "panic: index out of bounds", ret |-> None]
    ELSE IF test /\ ChildDangling(nl, search_idx, "Left")
    THEN [fault |-> "panic: No node at listed child!", ret |-> None]
    ELSE Bind(get_child_size(nl, search_idx, "Left"), LAMBDA rank :
         Bind(get_child_idx(nl, search_idx, IF index < rank THEN "Left" ELSE "Right"),
              LAMBDA next :
            IF rank = index THEN [fault |-> "none", ret |-> Some(search_idx)]
            ELSE IF IsSome(next)
            THEN Bind(IF index < rank THEN index ELSE index - (rank + 1), LAMBDA rest :
                    search_loop(nl, Unwrap(next), rest, test))
            ELSE IF test
            THEN [fault |-> IF index < rank THEN "panic: No left child!"
                                            ELSE "panic: No right child!",
                  ret |-> None]
            ELSE [fault |-> "none", ret |-> None]))

\* TList::search
search(tl, index, test) ==
    IF index > LenOf(tl.nl, tl.fl) THEN [fault |-> "none", ret |-> None]
    ELSE search_loop(tl.nl, tl.root, index, test)

\* TList::get: returns [fault, ret], ret the payload
get(tl, index, test) ==
    Bind(search(tl, index, test), LAMBDA f :
        IF f.fault /= "none" \/ ~IsSome(f.ret) THEN [fault |-> f.fault, ret |-> None]
        ELSE IF IsSome(Slot(tl.nl, Unwrap(f.ret)))
        THEN [fault |-> "none", ret |-> Some(Unwrap(Slot(tl.nl, Unwrap(f.ret))).data)]
        ELSE [fault |-> "none", ret |-> None])

\* TList::get_mut (the same steps as get, on &mut self)
get_mut(tl, index, test) == get(tl, index, test)

\* Iter::next that still asks get for the element at rank len()
iter_next_past_end(tl, loc, test) ==
    IF loc > LenOf(tl.nl, tl.fl) THEN [fault |-> "none", ret |-> None, loc |-> loc]
    ELSE Bind(get(tl, loc, test), LAMBDA g :
            [fault |-> g.fault, ret |-> g.ret, loc |-> loc + 1])

\* Iter::next at position loc: returns [fault, ret, loc]
iter_next(tl, loc, test) ==
    IF loc >= LenOf(tl.nl, tl.fl) THEN [fault |-> "none", ret |-> None, loc |-> loc]
    ELSE Bind(get(tl, loc, test), LAMBDA g :
            [fault |-> g.fault, ret |-> g.ret, loc |-> loc + 1])

\* `for x in list.iter()` from position loc: the items yielded up to the first
\* None, returns [fault, items]
RECURSIVE iter_pass(_, _, _, _)
iter_pass(tl, loc, items, test) ==
    Bind(iter_next(tl, loc, test), LAMBDA n :
        IF n.fault /= "none" THEN [fault |-> n.fault, items |-> items]
        ELSE IF ~IsSome(n.ret) THEN [fault |-> "none", items |-> items]
        ELSE iter_pass(tl, n.loc, Append(items, Unwrap(n.ret)), test))

\* TList::iter, run to its end
iter(tl, test) == iter_pass(tl, 0, <<>>, test)

\* Iter::size_hint at position loc: returns [fault, ret]; len() - loc below zero
\* panics in a debug build and wraps in a release build
size_hint(tl, loc) ==
    IF loc > LenOf(tl.nl, tl.fl)
    THEN [fault |-> "overflow: size_hint", ret |-> <<0, None>>]
    ELSE [fault |-> "none",
          ret |-> <<LenOf(tl.nl, tl.fl) - loc, Some(LenOf(tl.nl, tl.fl) - loc)>>]

\* TList::into_iter: the IntoIter is built and unimplemented!() panics; returns
\* [fault, items]
into_iter(tl) == [fault |-> "panic: not implemented", items |-> <<>>]

\* TList::remove: returns [tl, ret]
remove(tl, index) ==
    IF index >= LenOf(tl.nl, tl.fl) THEN [tl |-> tl, ret |-> None]
    ELSE [tl |-> tl, ret |-> None]

\* ------------------------------------------------------------- from_data
flip(color) == IF color = "Black" THEN "Red" ELSE "Black"

\* TList::prepare_left_child: None, or Some of [loc, idx, count], loc the NodeLoc pushed
prepare_left_child(loc_node) ==
    IF loc_node.left_edge >= loc_node.node_idx THEN None
    ELSE LET new_left_loc == loc_node.left_edge
                               + ((loc_node.node_idx - loc_node.left_edge) \div 2)
         IN  Some([loc |-> [color |-> flip(loc_node.color),
                            parent |-> Some(loc_node.node_idx),
                            left_edge |-> loc_node.left_edge,
                            right_edge |-> loc_node.node_idx,
                            node_idx |-> new_left_loc],
                   idx |-> new_left_loc,
                   count |-> loc_node.node_idx - loc_node.left_edge])

\* prepare_right_child that takes the first position of the right range
prepare_right_child_leftmost(loc_node) ==
    IF loc_node.right_edge <= loc_node.node_idx + 1 THEN None
    ELSE Some([loc |-> [color |-> flip(loc_node.color),
                        parent |-> Some(loc_node.node_idx),
                        left_edge |-> loc_node.node_idx + 1,
                        right_edge |-> loc_node.right_edge,
                        node_idx |-> loc_node.node_idx + 1],
               idx |-> loc_node.node_idx + 1,
               count |-> loc_node.right_edge - loc_node.node_idx - 1])

\* TList::prepare_right_child
prepare_right_child(loc_node) ==
    IF loc_node.right_edge <= loc_node.node_idx + 1 THEN None
    ELSE LET new_right_loc == loc_node.node_idx
                                + ((loc_node.right_edge - loc_node.node_idx) \div 2)
         IN  Some([loc |-> [color |-> flip(loc_node.color),
                            parent |-> Some(loc_node.node_idx),
                            left_edge |-> loc_node.node_idx + 1,
                            right_edge |-> loc_node.right_edge,
                            node_idx |-> new_right_loc],
                   idx |-> new_right_loc,
                   count |-> loc_node.right_edge - loc_node.node_idx - 1])

\* a node carrying the payload of the mirrored position
built_node_mirrored(data, node_loc, l, r) ==
    [data |-> data[Len(data) - node_loc.node_idx],
     color |-> node_loc.color,
     parent |-> node_loc.parent,
     left |-> IF IsSome(l) THEN Some(Unwrap(l).idx) ELSE None,
     right |-> IF IsSome(r) THEN Some(Unwrap(r).idx) ELSE None,
     size |-> 1 + (IF IsSome(l) THEN Unwrap(l).count ELSE 0)
                + (IF IsSome(r) THEN Unwrap(r).count ELSE 0)]

\* the node from_data stores for node_loc, given its prepared children
built_node(data, node_loc, l, r) ==
    [data |-> data[node_loc.node_idx + 1],
     color |-> node_loc.color,
     parent |-> node_loc.parent,
     left |-> IF IsSome(l) THEN Some(Unwrap(l).idx) ELSE None,
     right |-> IF IsSome(r) THEN Some(Unwrap(r).idx) ELSE None,
     size |-> 1 + (IF IsSome(l) THEN Unwrap(l).count ELSE 0)
                + (IF IsSome(r) THEN Unwrap(r).count ELSE 0)]

\* one pass of the work-list loop of from_data, lib.rs 176-191: [nl, stack]
build_step(nl, build_stack, data) ==
    LET node_loc == build_stack[Len(build_stack)]
        l == prepare_left_child(node_loc)
        r == prepare_right_child(node_loc)
    IN  [nl |-> SetSlot(nl, node_loc.node_idx, Some(built_node(data, node_loc, l, r))),
         stack |-> SubSeq(build_stack, 1, Len(build_stack) - 1)
                       \o (IF IsSome(l) THEN <<Unwrap(l).loc>> ELSE <<>>)
                       \o (IF IsSome(r) THEN <<Unwrap(r).loc>> ELSE <<>>)]

\* while let Some(node_loc) = build_stack.pop() { ... }
RECURSIVE build_loop(_, _, _)
build_loop(nl, build_stack, data) ==
    IF build_stack = <<>> THEN nl
    ELSE Bind(build_step(nl, build_stack, data), LAMBDA b :
            build_loop(b.nl, b.stack, data))

\* from_data rooted at the lower of the two middle positions
from_data_low_root(data) ==
    IF Len(data) = 0 THEN [with_capacity(0) EXCEPT !.fl = <<>>]
    ELSE [nl |-> build_loop(with_capacity(Len(data)).nl,
                            <<[color |-> "Black", parent |-> None, left_edge |-> 0,
                               right_edge |-> Len(data),
                               node_idx |-> (Len(data) - 1) \div 2]>>,
                            data),
          fl |-> <<>>,
          root |-> (Len(data) - 1) \div 2]

\* TList::from_data
from_data(data) ==
    IF Len(data) = 0 THEN [with_capacity(0) EXCEPT !.fl = <<>>]
    ELSE [nl |-> build_loop(with_capacity(Len(data)).nl,
                            <<[color |-> "Black", parent |-> None, left_edge |-> 0,
                               right_edge |-> Len(data), node_idx |-> Len(data) \div 2]>>,
                            data),
          fl |-> <<>>,
          root |-> Len(data) \div 2]

\* TList::new
new == with_capacity(INITIAL_SIZE)

\* ------------------------------------------------------------- state
VARIABLES
    node_list,   \* TList.node_list: Vec<Option<Node<T>>>
    free_list,   \* TList.free_list: Vec<usize>
    root_idx,    \* TList.root_idx
    cfg_test,    \* the build: TRUE when compiled with cfg!(test)
    vec,         \* a reference Vec<T> given the same insertions
    fault,       \* "none", or how the call that ended the run failed
    call,        \* the innermost method that last changed the list (or failed)
    narrow,      \* every insertion so far was at rank 0, len()/2 or len()
    it           \* the live Iter borrowed from the list, if any

vars == <<node_list, free_list, root_idx, cfg_test, vec, fault, call, narrow, it>>

TL == [nl |-> node_list, fl |-> free_list, root |-> root_idx]

\* TList::len
len == LenOf(node_list, free_list)

\* TList::capacity
capacity == Len(node_list)

\* Vec::insert(k, e) on the reference
InsertAt(v, k, e) == SubSeq(v, 1, k) \o <<e>> \o SubSeq(v, k + 1, Len(v))

\* the payload of the next insertion: a tag no element carries yet
NextElem == len

\* the ranks a run keeps to in order to grow past MaxLen elements
NarrowRanks(n) == {0, n \div 2, n}

\* ranks tried by the next insertion: every rank while the list is short, the
\* narrow ones beyond that for a list that did not start with INITIAL_SIZE slots
Ranks ==
    (IF len < MaxLen THEN 0..len ELSE {})
        \cup (IF narrow /\ len < MaxDeep /\ capacity < INITIAL_SIZE
              THEN NarrowRanks(len) ELSE {})

\* indexes tried by the reading calls: in range, len() and past it
ReadIndexes == {len \div 2, len, len + 1}

Constructed(tl, fn, arg, data) ==
    /\ node_list = tl.nl
    /\ free_list = tl.fl
    /\ root_idx = tl.root
    /\ vec = data
    /\ fault = "none"
    /\ call = [fn |-> fn, index |-> arg, ev |-> <<>>]
    /\ narrow = TRUE
    /\ it = None

\* TList::new() or TList::with_capacity(c): an empty list
ConstructedEmpty ==
    \/ \E tl \in {new} : Constructed(tl, "new", INITIAL_SIZE, <<>>)
    \/ \E c \in 0..MaxCap :
           \E tl \in {with_capacity(c)} : Constructed(tl, "with_capacity", c, <<>>)

\* TList::from_data(S), S of n distinct payloads
ConstructedFromData ==
    \E n \in 0..MaxData :
        \E tl \in {from_data(RangeSeq(0, n))} :
            Constructed(tl, "from_data", n, RangeSeq(0, n))

Init ==
    /\ cfg_test \in BOOLEAN
    /\ (ConstructedEmpty \/ ConstructedFromData)

\* a list that starts out from new() or with_capacity(c)
InitEmpty ==
    /\ cfg_test \in BOOLEAN
    /\ ConstructedEmpty

\* the state after a mutating call that returned r = [nl, fl, root, fault, ev],
\* having been asked to insert elem at rank index <= len()
Mutated(r, fn, index, elem) ==
    /\ node_list' = r.nl
    /\ free_list' = r.fl
    /\ root_idx' = r.root
    /\ fault' = r.fault
    /\ call' = [fn |-> fn, index |-> index, ev |-> r.ev]
    /\ vec' = IF r.fault = "none" THEN InsertAt(vec, index, elem) ELSE vec
    /\ narrow' = (narrow /\ index \in NarrowRanks(len))
    /\ UNCHANGED <<cfg_test, it>>

\* the state after a reading call that returned r = [fault, ret]: a failure ends
\* the run, a return leaves the list as it was
Read(r, fn, index) ==
    IF r.fault /= "none"
    THEN /\ fault' = r.fault
         /\ call' = [fn |-> fn, index |-> index, ev |-> <<>>]
         /\ UNCHANGED <<node_list, free_list, root_idx, cfg_test, vec, narrow, it>>
    ELSE UNCHANGED vars

Push ==
    /\ fault = "none"
    /\ len \in Ranks
    /\ \E r \in {push(TL, NextElem, cfg_test)} :
           Mutated(r, IF len = 0 THEN "push" ELSE "insert", len, NextElem)

Insert ==
    /\ fault = "none"
    /\ \E index \in Ranks :
           \E r \in {insert(TL, NextElem, index, cfg_test)} :
               Mutated(r, "insert", index, NextElem)

InsertOrPush ==
    /\ fault = "none"
    /\ \E index \in {i \in {len \div 2, len + 1} : (IF i < len THEN i ELSE len) \in Ranks} :
           \E r \in {insert_or_push(TL, NextElem, index, cfg_test)} :
               Mutated(r, IF len = 0 THEN "push" ELSE "insert",
                       IF index < len THEN index ELSE len, NextElem)

Get ==
    /\ fault = "none"
    /\ \E index \in ReadIndexes :
           \E r \in {get(TL, index, cfg_test)} : Read(r, "search", index)

GetMut ==
    /\ fault = "none"
    /\ \E index \in ReadIndexes :
           \E r \in {get_mut(TL, index, cfg_test)} : Read(r, "search", index)

Iterate ==
    /\ fault = "none"
    /\ \E r \in {iter(TL, cfg_test)} : Read(r, "search", 0)

Remove ==
    /\ fault = "none"
    /\ \E index \in ReadIndexes :
           \E r \in {remove(TL, index)} :
               /\ node_list' = r.tl.nl
               /\ free_list' = r.tl.fl
               /\ root_idx' = r.tl.root
               /\ UNCHANGED <<cfg_test, vec, fault, call, narrow, it>>

Next ==
    \/ Push
    \/ Insert
    \/ InsertOrPush
    \/ Get
    \/ GetMut
    \/ Iterate
    \/ Remove

Spec == Init /\ [][Next]_vars

\* the same calls on lists that were constructed empty
SpecFromEmpty == InitEmpty /\ [][Next]_vars

\* ------------------------------------------------------------- iteration
\* push while no Iter borrows the list
PushIdle == it = None /\ Push

\* TList::iter: a fresh Iter at loc 0; items are the elements it has yielded,
\* ended tells that its last next() returned None
IterBegin ==
    /\ fault = "none"
    /\ it' = Some([loc |-> 0, items |-> <<>>, ended |-> FALSE])
    /\ UNCHANGED <<node_list, free_list, root_idx, cfg_test, vec, fault, call, narrow>>

\* Iter::next
IterNext ==
    /\ fault = "none"
    /\ IsSome(it)
    /\ \E r \in {iter_next(TL, Unwrap(it).loc, cfg_test)} :
           /\ fault' = r.fault
           /\ call' = IF r.fault = "none" THEN call
                      ELSE [fn |-> "search", index |-> Unwrap(it).loc, ev |-> <<>>]
           /\ it' = IF r.fault /= "none" THEN it
                    ELSE Some([loc |-> r.loc,
                               items |-> Unwrap(it).items \o r.ret,
                               ended |-> ~IsSome(r.ret)])
    /\ UNCHANGED <<node_list, free_list, root_idx, cfg_test, vec, narrow>>

\* Iter::size_hint
IterSizeHint ==
    /\ fault = "none"
    /\ IsSome(it)
    /\ \E r \in {size_hint(TL, Unwrap(it).loc)} :
           /\ fault' = r.fault
           /\ UNCHANGED <<node_list, free_list, root_idx, cfg_test, vec, call, narrow, it>>

\* the Iter goes out of scope
IterDrop ==
    /\ IsSome(it)
    /\ it' = None
    /\ UNCHANGED <<node_list, free_list, root_idx, cfg_test, vec, fault, call, narrow>>

\* TList::into_iter, which consumes the list
IntoIter ==
    /\ fault = "none"
    /\ it = None
    /\ \E r \in {into_iter(TL)} :
           /\ fault' = r.fault
           /\ call' = [fn |-> "into_iter", index |-> 0, ev |-> r.items]
    /\ UNCHANGED <<node_list, free_list, root_idx, cfg_test, vec, narrow, it>>

NextIter ==
    \/ PushIdle
    \/ IterBegin
    \/ IterNext
    \/ IterSizeHint
    \/ IterDrop
    \/ IntoIter

\* lists grown by push and walked by iterators
SpecIter == Init /\ [][NextIter]_vars

\* ------------------------------------------------------------- what a caller reads
\* the list tl reads back as the sequence v: len(), get(0..len()-1) and a full
\* iter() pass, none of them failing
ReadsAs(tl, v, test) ==
    /\ LenOf(tl.nl, tl.fl) = Len(v)
    /\ \A i \in 1..Len(v) : get(tl, i - 1, test) = [fault |-> "none", ret |-> Some(v[i])]
    /\ iter(tl, test) = [fault |-> "none", items |-> v]

\* the last mutating call took the step `what` (case1, case2, rotate, ...)
Took(what) == \E i \in DOMAIN call.ev : call.ev[i] = what

\* ------------------------------------------------------------- C1
\* C1: whenever insert(v, r), r <= len(), is called on a list that holds at least
\* one element (built by from_data or started by push), the call returns and
\* get(0..len()-1) and iter() then read exactly what a Vec holds after the same
\* insert(r, v) calls.
C1_InsertMatchesVec ==
    (call.fn = "insert" /\ len >= 2) => (fault = "none" /\ ReadsAs(TL, vec, cfg_test))

\* an insertion strictly inside the list that rotated the tree and brought it
\* to MaxDeep elements
C1_Witness ==
    /\ call.fn = "insert" /\ fault = "none"
    /\ len = MaxDeep /\ 0 < call.index /\ call.index < len - 1
    /\ Took("rotate")
    /\ ReadsAs(TL, vec, cfg_test)

\* ------------------------------------------------------------- C2
\* C2: for every input S, the empty and the one-element sequence included,
\* from_data(S) has len() = |S|, get(i) = S[i] for every i < |S|, and a full
\* iter() pass yields S in order.
C2_FromDataRoundTrip ==
    call.fn = "from_data"
        => (fault = "none" /\ Len(vec) = call.index /\ ReadsAs(TL, vec, cfg_test))

\* the list built from the longest input, read back
C2_Witness ==
    /\ call.fn = "from_data" /\ len = MaxData
    /\ iter(TL, cfg_test).items = RangeSeq(0, MaxData)

\* ------------------------------------------------------------- C3
\* the list a mutating call returned, r = [nl, fl, root, fault, ev]
ListOf(r) == [nl |-> r.nl, fl |-> r.fl, root |-> r.root]

\* C3: in every list state, the empty list of any capacity included,
\* insert(v, len()) returns and leaves the element sequence and the length that
\* push(v) leaves from the same state.
C3_InsertAtLenIsPush ==
    fault = "none" =>
        LET a == insert(TL, NextElem, len, cfg_test)
            p == push(TL, NextElem, cfg_test)
        IN  /\ a.fault = "none"
            /\ p.fault = "none"
            /\ LenOf(a.nl, a.fl) = LenOf(p.nl, p.fl)
            /\ iter(ListOf(a), cfg_test) = iter(ListOf(p), cfg_test)

\* ------------------------------------------------------------- C4
\* C4: in every list state, get(rank), get_mut(rank) and remove(rank) with
\* rank >= len() return None, do not panic and leave the list as it was; the
\* empty list with a zero-slot arena and rank = len() are included.
C4_OutOfRangeIsNone ==
    fault = "none" =>
        \A rank \in {len, len + 1} :
            /\ get(TL, rank, cfg_test) = [fault |-> "none", ret |-> None]
            /\ get_mut(TL, rank, cfg_test) = [fault |-> "none", ret |-> None]
            /\ remove(TL, rank) = [tl |-> TL, ret |-> None]

\* ------------------------------------------------------------- C5
\* Vec::remove(k) on the reference
RemoveAt(v, k) == SubSeq(v, 1, k) \o SubSeq(v, k + 2, Len(v))

\* C5: for every list and every rank < len(), remove(rank) returns the element
\* that was at rank and leaves the list a Vec is left with by remove(rank): one
\* element shorter, the elements after rank one position earlier.
C5_RemoveInRange ==
    fault = "none" =>
        \A rank \in 0..(len - 1) :
            LET r == remove(TL, rank)
            IN  /\ r.ret = Some(vec[rank + 1])
                /\ ReadsAs(r.tl, RemoveAt(vec, rank), cfg_test)

\* ------------------------------------------------------------- tree shape
\* the slots of the subtree hanging from the link o
RECURSIVE Subtree(_, _)
Subtree(nl, o) ==
    IF ~IsSome(o) \/ ~IsSome(Slot(nl, Unwrap(o))) THEN {}
    ELSE {Unwrap(o)} \cup Subtree(nl, Unwrap(Slot(nl, Unwrap(o))).left)
                     \cup Subtree(nl, Unwrap(Slot(nl, Unwrap(o))).right)

\* the slots of the tree of the list tl
TreeOf(tl) == IF tl.root < Len(tl.nl) THEN Subtree(tl.nl, Some(tl.root)) ELSE {}

\* the numbers of Black nodes met on the paths from the link o down to an
\* absent child
RECURSIVE BlackCounts(_, _)
BlackCounts(nl, o) ==
    IF ~IsSome(o) \/ ~IsSome(Slot(nl, Unwrap(o))) THEN {0}
    ELSE LET n == Unwrap(Slot(nl, Unwrap(o)))
             b == IF n.color = "Black" THEN 1 ELSE 0
         IN  {h + b : h \in BlackCounts(nl, n.left) \cup BlackCounts(nl, n.right)}

\* (a) the root is Black
RootIsBlack(tl) == color_of(tl.nl, Some(tl.root)) = Some("Black")

\* (b) no Red node has a Red child
NoRedRed(tl) ==
    \A i \in TreeOf(tl) :
        Unwrap(Slot(tl.nl, i)).color = "Red"
            => /\ color_of(tl.nl, Unwrap(Slot(tl.nl, i)).left) /= Some("Red")
               /\ color_of(tl.nl, Unwrap(Slot(tl.nl, i)).right) /= Some("Red")

\* (c) every path from the root to an absent child meets the same number of
\* Black nodes
BlackBalanced(tl) == Cardinality(BlackCounts(tl.nl, Some(tl.root))) = 1

\* the list holds an element and did not get its first one through insert
Started == len >= 1 /\ ~(call.fn = "insert" /\ len = 1)

\* ------------------------------------------------------------- C6
\* C6: in every state reached from from_data(S), S non-empty, or from a list
\* started by push, through push and insert(v, r <= len()), the calls return,
\* the root is Black and no Red node has a Red child.
C6_ColourInvariants ==
    Started => /\ call.fn /= "search" => fault = "none"
               /\ RootIsBlack(TL)
               /\ NoRedRed(TL)

\* an insertion whose repair recoloured two levels and then rotated twice
C6_Witness ==
    /\ Started /\ fault = "none"
    /\ call.ev = <<"case1", "case2", "rotate", "case3", "rotate">>
    /\ RootIsBlack(TL) /\ NoRedRed(TL)

\* ------------------------------------------------------------- C7
\* C7: for every non-empty input the tree from_data returns has a Black root,
\* no Red node with a Red child, and the same number of Black nodes on every
\* path from the root to an absent child.
C7_FromDataIsRedBlack ==
    (call.fn = "from_data" /\ len >= 1)
        => (RootIsBlack(TL) /\ NoRedRed(TL) /\ BlackBalanced(TL))

\* ------------------------------------------------------------- C8
\* C8: for a list constructed empty and grown by a first push followed by push
\* and insert(v, r <= len()), after every call every path from the root to an
\* absent child meets the same number of Black nodes.
C8_BlackHeight ==
    Started => /\ call.fn /= "search" => fault = "none"
               /\ BlackBalanced(TL)

\* a list of MaxDeep elements, grown from empty, whose last insertion recoloured
\* and rotated, with two Black nodes on every path
C8_Witness ==
    /\ Started /\ fault = "none" /\ len = MaxDeep
    /\ Took("case1") /\ Took("rotate")
    /\ BlackBalanced(TL)
    /\ BlackCounts(node_list, Some(root_idx)) = {2}

\* ------------------------------------------------------------- C9
\* size == size(left) + size(right) + 1 at every node, an absent child counting 0
SizesAddUp(tl) ==
    \A i \in TreeOf(tl) :
        Unwrap(Slot(tl.nl, i)).size
            = get_child_size(tl.nl, i, "Left") + get_child_size(tl.nl, i, "Right") + 1

\* the size field of the root, 0 for a list without a root node
RootSize(tl) ==
    IF tl.root < Len(tl.nl) /\ IsSome(Slot(tl.nl, tl.root))
    THEN Unwrap(Slot(tl.nl, tl.root)).size
    ELSE 0

\* C9: after every from_data, push, insert and insert_or_push that returned,
\* every node has size = size(left) + size(right) + 1 and the size of the root
\* is len().
C9_SizeInvariant ==
    fault = "none" => (SizesAddUp(TL) /\ RootSize(TL) = len)

\* a list of MaxDeep elements whose last insertion rotated at the grandparent
\* after a recolouring, sizes recomputed
C9_Witness ==
    /\ fault = "none" /\ len = MaxDeep
    /\ call.ev = <<"case1", "case3", "rotate">>
    /\ SizesAddUp(TL) /\ RootSize(TL) = len

\* ------------------------------------------------------------- C10
\* C10: no sequence of new / with_capacity / from_data / push /
\* insert(v, r <= len()) / insert_or_push / get / get_mut / iter calls makes
\* insert_fix_up fail its grandparent expect or its final root unwrap, invokes a
\* rotation on a node that lacks its pivot child, or indexes a slot outside the
\* arena.
C10_NoStructuralFault ==
    /\ fault \notin {"panic: Grandparent should exist!",
                     "panic: unwrap of an empty grandparent slot",
                     "panic: unwrap of an empty root slot",
                     "panic: rotation of an empty slot",
                     "panic: rotation without pivot child",
                     "panic: index out of bounds"}
    /\ ~Took("rotate_no_node")
    /\ ~Took("rotate_no_pivot")

\* ------------------------------------------------------------- C11
\* C11: in every state, the empty container of capacity 0 or 1 included, each
\* call of insert, push, insert_or_push, get and get_mut runs to its end: the
\* descent loops of insert and search and the repair loop of insert_fix_up exit.
C11_CallsTerminate ==
    fault /= "hang: insert_fix_up"

\* ------------------------------------------------------------- C12
\* the slots of the arena that hold a node
Occupied(nl) == {i \in 0..(Len(nl) - 1) : IsSome(Slot(nl, i))}

\* the handles on the free list
Handles(fl) == {fl[i] : i \in DOMAIN fl}

\* len() counts the occupied slots, and the free list holds each empty slot once
CountsAgree(tl) ==
    /\ LenOf(tl.nl, tl.fl) = Cardinality(Occupied(tl.nl))
    /\ LenOf(tl.nl, tl.fl) = Len(tl.nl) - Len(tl.fl)
    /\ Handles(tl.fl) = (0..(Len(tl.nl) - 1)) \ Occupied(tl.nl)
    /\ Cardinality(Handles(tl.fl)) = Len(tl.fl)

\* C12: in every state len() = number of slots holding a node = capacity() minus
\* the length of the free list, the free list holds exactly the indices of the
\* empty slots, each once, and every push / insert that returns increases len()
\* by exactly one.
C12_CountInvariant ==
    /\ [](fault = "none" => CountsAgree(TL))
    /\ [][(fault' = "none" /\ node_list' /= node_list) => len' = len + 1]_vars

\* an insertion that found the free list empty and left handles on it
C12_Witness ==
    /\ fault = "none" /\ call.fn = "insert"
    /\ len >= MaxLen /\ capacity > len /\ capacity < INITIAL_SIZE
    /\ CountsAgree(TL)

\* ------------------------------------------------------------- C13
\* the handle h is the index of a slot that holds a node
ValidHandle(nl, h) == h < Len(nl) /\ IsSome(Slot(nl, h))

\* every parent, left and right link of a node, and the root handle, is valid
HandlesValid(tl) ==
    /\ ValidHandle(tl.nl, tl.root)
    /\ \A i \in Occupied(tl.nl) :
           \A o \in {Unwrap(Slot(tl.nl, i)).parent,
                     Unwrap(Slot(tl.nl, i)).left,
                     Unwrap(Slot(tl.nl, i)).right} :
               IsSome(o) => ValidHandle(tl.nl, Unwrap(o))

\* C13: in every state reached through the public methods, every handle stored
\* in a parent, left or right link, and the root handle of the container, is
\* the index of an arena slot that holds a node.
C13_HandlesValid ==
    fault = "none" => HandlesValid(TL)

\* ------------------------------------------------------------- C14
\* C14: from every list state, empty or not, push(v) returns with len() one
\* larger, get(old len) = v and get(i) as before for every i < old len; on an
\* empty list the pushed node is the root and Black.
C14_PushAppends ==
    fault = "none" =>
        LET p == push(TL, NextElem, cfg_test)
        IN  /\ p.fault = "none"
            /\ LenOf(p.nl, p.fl) = len + 1
            /\ get(ListOf(p), len, cfg_test) = [fault |-> "none", ret |-> Some(NextElem)]
            /\ \A i \in 0..(len - 1) : get(ListOf(p), i, cfg_test) = get(TL, i, cfg_test)
            /\ len = 0 => /\ ValidHandle(p.nl, p.root)
                          /\ Unwrap(Slot(p.nl, p.root)).data = NextElem
                          /\ Unwrap(Slot(p.nl, p.root)).color = "Black"

\* a push onto a list of MaxDeep - 1 elements that rotated the tree, read back
C14_Witness ==
    /\ fault = "none" /\ call.fn = "insert"
    /\ len = MaxDeep /\ call.index = len - 1
    /\ Took("rotate")
    /\ get(TL, len - 1, cfg_test).ret = Some(len - 1)

\* ------------------------------------------------------------- C15
\* C15: from every list state, the empty one included, insert_or_push(v, index)
\* returns and leaves what push(v) leaves when index >= len(), and what
\* insert(v, index) leaves when index < len(); the indexes tried are the first
\* and the last rank, len() and len() + 1.
C15_InsertOrPush ==
    fault = "none" =>
        \A index \in {0, len, len + 1} \cup {i \in {len - 1} : i >= 0} :
            LET r == insert_or_push(TL, NextElem, index, cfg_test)
            IN  /\ r.fault = "none"
                /\ LenOf(r.nl, r.fl) = len + 1
                /\ index >= len => r = push(TL, NextElem, cfg_test)
                /\ index < len => r = insert(TL, NextElem, index, cfg_test)

\* insert_or_push(v, 1) on the empty list of capacity 0: v is pushed as the root
C15_Witness ==
    /\ fault = "none" /\ call.fn = "push" /\ len = 1
    /\ insert_or_push(with_capacity(0), 0, 1, cfg_test).nl = node_list

\* ------------------------------------------------------------- C16
\* C16: an Iter starts at rank 0; its next() calls yield the elements at ranks
\* 0, 1, ..., len() - 1 in that order and None on every call after that, and
\* size_hint() reports len() minus the number of items yielded, as lower and as
\* upper bound.
C16_IterationContract ==
    (fault = "none" /\ IsSome(it)) =>
        LET i == Unwrap(it)
            n == iter_next(TL, i.loc, cfg_test)
        IN  /\ i.loc = Len(i.items)
            /\ i.loc <= len
            /\ i.items = SubSeq(vec, 1, i.loc)
            /\ i.ended => i.loc = len
            /\ size_hint(TL, i.loc)
                   = [fault |-> "none",
                      ret |-> <<len - Len(i.items), Some(len - Len(i.items))>>]
            /\ i.loc < len => n = [fault |-> "none", ret |-> Some(vec[i.loc + 1]),
                                   loc |-> i.loc + 1]
            /\ i.loc = len => n = [fault |-> "none", ret |-> None, loc |-> i.loc]

\* an Iter over the longest from_data list that has yielded every element and
\* then returned None
C16_Witness ==
    /\ fault = "none" /\ IsSome(it) /\ len = MaxData
    /\ Unwrap(it).ended
    /\ Unwrap(it).items = vec

\* ------------------------------------------------------------- C18
\* C18: into_iter() on any list returns an iterator whose next() yields the
\* owned elements in index order, rank 0 first, and then None.
C18_IntoIterDrains ==
    /\ fault = "none" => into_iter(TL) = [fault |-> "none", items |-> vec]
    /\ call.fn = "into_iter" => (fault = "none" /\ call.ev = vec)

\* ------------------------------------------------------------- C17
\* what add_leaf does to the arena of tl, asked for a slot for elem
Allocates(tl, elem) ==
    LET a == add_leaf(tl.nl, tl.fl, elem)
        h == a[3]
        old == Len(tl.nl)
        grown == Len(a[1])
    IN  /\ IF tl.fl /= <<>>
           THEN /\ grown = old
                /\ h \in Handles(tl.fl)
                /\ Handles(a[2]) = Handles(tl.fl) \ {h}
                /\ Len(a[2]) = Len(tl.fl) - 1
           ELSE /\ grown = old + 1 + (LenOf(tl.nl, tl.fl) \div 2)
                /\ h \in old..(grown - 1)
                /\ Handles(a[2]) = (old..(grown - 1)) \ {h}
                /\ Len(a[2]) = grown - old - 1
        /\ h < old => ~IsSome(Slot(tl.nl, h))
        /\ Slot(a[1], h) = Some(new_leaf(elem, "Red"))
        /\ \A i \in 0..(grown - 1) :
               i /= h => Slot(a[1], i) = (IF i < old THEN Slot(tl.nl, i) ELSE None)

\* C17: an allocation with a non-empty free list takes its handle from the free
\* list and leaves capacity() as it is; one with an empty free list grows the
\* arena by exactly 1 + len()/2 empty slots, returns one of the new handles and
\* puts the others on the free list; capacity() never decreases and the handle
\* allocated never names an occupied slot.
C17_ArenaGrowth ==
    /\ [](fault = "none" => Allocates(TL, NextElem))
    /\ [][capacity' >= capacity]_vars

\* the insertion that grew a full arena of 4 slots to 7
C17_Witness ==
    /\ fault = "none" /\ call.fn = "insert"
    /\ len = 5 /\ capacity = 7 /\ Len(free_list) = 2

\* ------------------------------------------------------------- C19
\* C19: for every non-empty S, from_data(S) stores S[i] in arena slot i for
\* every i, sets the root handle to |S| / 2 (rounded down), gives the root no
\* parent, and ends with capacity() = len() = |S| and an empty free list.
C19_FromDataLayout ==
    (call.fn = "from_data" /\ call.index >= 1) =>
        /\ fault = "none"
        /\ capacity = call.index /\ len = call.index /\ free_list = <<>>
        /\ root_idx = call.index \div 2
        /\ \A i \in 0..(call.index - 1) :
               /\ IsSome(Slot(node_list, i))
               /\ Unwrap(Slot(node_list, i)).data = vec[i + 1]
        /\ Unwrap(Slot(node_list, root_idx)).parent = None

\* from_data(&[0, ..., 9]): the root is slot 5 and holds 5
C19_Witness ==
    /\ call.fn = "from_data" /\ call.index = 10
    /\ root_idx = 5
    /\ get(TL, 5, cfg_test).ret = Some(5)
    /\ Unwrap(Slot(node_list, 5)).data = 5

\* ------------------------------------------------------------- C20
\* the node at slot m covers the positions l..r-1 as from_data lays them out,
\* and so does every node below it
RECURSIVE Covers(_, _, _, _)
Covers(nl, m, l, r) ==
    LET n == Unwrap(Slot(nl, m))
        lsize == get_child_size(nl, m, "Left")
        rsize == get_child_size(nl, m, "Right")
        Child(c) == /\ Unwrap(Slot(nl, c)).parent = Some(m)
                    /\ Unwrap(Slot(nl, c)).color = flip(n.color)
    IN  /\ IsSome(n.left) <=> m > l
        /\ IsSome(n.right) <=> r > m + 1
        /\ m > l => /\ n.left = Some(l + ((m - l) \div 2))
                    /\ lsize = m - l
                    /\ Child(Unwrap(n.left))
                    /\ Covers(nl, Unwrap(n.left), l, m)
        /\ r > m + 1 => /\ n.right = Some(m + ((r - m) \div 2))
                        /\ rsize = r - m - 1
                        /\ Child(Unwrap(n.right))
                        /\ Covers(nl, Unwrap(n.right), m + 1, r)
        /\ lsize - rsize \in {-1, 0, 1}

\* C20: in the tree from_data builds, the node at slot m covering [l, r) has a
\* left child, at l + (m - l)/2 with subtree size m - l, iff m > l, and a right
\* child, at m + (r - m)/2 with subtree size r - m - 1, iff r > m + 1; the two
\* subtree sizes differ by at most one, and each child has m as its parent and
\* the colour opposite to that of m.
C20_FromDataBalance ==
    (call.fn = "from_data" /\ call.index >= 1)
        => Covers(node_list, root_idx, 0, call.index)

\* the tree of from_data(&[0, ..., 9]): the root at 5 with children at 2 and 7
C20_Witness ==
    /\ call.fn = "from_data" /\ call.index = 10
    /\ Unwrap(Slot(node_list, 5)).left = Some(2)
    /\ Unwrap(Slot(node_list, 5)).right = Some(7)
    /\ Covers(node_list, root_idx, 0, 10)

\* ------------------------------------------------------------- growth only
\* the calls that add an element, without the reading ones
NextGrow ==
    \/ Push
    \/ Insert
    \/ InsertOrPush

\* lists constructed in any way and then grown by push / insert / insert_or_push
SpecGrow == Init /\ [][NextGrow]_vars

\* ------------------------------------------------------------- C24
\* the node in slot i
NodeAt(nl, i) == Unwrap(Slot(nl, i))

\* the number of nodes met walking the links down from o, a node counted each
\* time it is met; the walk gives up after `fuel` levels
RECURSIVE NodesBelow(_, _, _)
NodesBelow(nl, o, fuel) ==
    IF ~IsSome(o) \/ fuel = 0 THEN 0
    ELSE IF Unwrap(o) >= Len(nl) \/ ~IsSome(Slot(nl, Unwrap(o))) THEN 0
    ELSE 1 + NodesBelow(nl, NodeAt(nl, Unwrap(o)).left, fuel - 1)
           + NodesBelow(nl, NodeAt(nl, Unwrap(o)).right, fuel - 1)

\* the slots met walking the links down from o, at most `fuel` levels deep
RECURSIVE SlotsBelow(_, _, _)
SlotsBelow(nl, o, fuel) ==
    IF ~IsSome(o) \/ fuel = 0 THEN {}
    ELSE IF Unwrap(o) >= Len(nl) \/ ~IsSome(Slot(nl, Unwrap(o))) THEN {}
    ELSE {Unwrap(o)} \cup SlotsBelow(nl, NodeAt(nl, Unwrap(o)).left, fuel - 1)
                     \cup SlotsBelow(nl, NodeAt(nl, Unwrap(o)).right, fuel - 1)

\* a child link of p names a node whose parent link names p
ChildrenPointBack(nl, p) ==
    \A c \in {NodeAt(nl, p).left, NodeAt(nl, p).right} :
        IsSome(c) => /\ ValidHandle(nl, Unwrap(c))
                     /\ NodeAt(nl, Unwrap(c)).parent = Some(p)

\* node i, not the root, is the left or the right child of its parent, not both
OneLinkFromParent(nl, i) ==
    /\ IsSome(NodeAt(nl, i).parent)
    /\ ValidHandle(nl, Unwrap(NodeAt(nl, i).parent))
    /\ (NodeAt(nl, Unwrap(NodeAt(nl, i).parent)).left = Some(i))
           /= (NodeAt(nl, Unwrap(NodeAt(nl, i).parent)).right = Some(i))

\* the links of tl form one tree over the occupied slots, hung from the root
LinksFormTree(tl) ==
    /\ ValidHandle(tl.nl, tl.root)
    /\ NodeAt(tl.nl, tl.root).parent = None
    /\ \A p \in Occupied(tl.nl) : ChildrenPointBack(tl.nl, p)
    /\ \A i \in Occupied(tl.nl) \ {tl.root} : OneLinkFromParent(tl.nl, i)
    /\ SlotsBelow(tl.nl, Some(tl.root), Len(tl.nl) + 1) = Occupied(tl.nl)
    /\ NodesBelow(tl.nl, Some(tl.root), Len(tl.nl) + 1) = LenOf(tl.nl, tl.fl)

\* C24: in every state with at least one element that from_data, push, insert
\* or insert_or_push returned, the root node has no parent, every child link
\* names a node whose parent link points back, every other node hangs from its
\* parent by exactly one link, and walking down from the root meets every
\* occupied slot exactly once: a tree of len() nodes without cycle or self-link.
C24_LinksFormTree ==
    (fault = "none" /\ len >= 1) => LinksFormTree(TL)

\* a tree of MaxDeep nodes whose last insertion rotated twice
C24_Witness ==
    /\ fault = "none" /\ len = MaxDeep
    /\ call.ev = <<"case2", "rotate", "case3", "rotate">>
    /\ LinksFormTree(TL)

\* ------------------------------------------------------------- C27
\* the number of nodes on the longest path from the link o down to an absent
\* child, followed at most `fuel` levels
RECURSIVE Height(_, _, _)
Height(nl, o, fuel) ==
    IF ~IsSome(o) \/ fuel = 0 THEN 0
    ELSE IF Unwrap(o) >= Len(nl) \/ ~IsSome(Slot(nl, Unwrap(o))) THEN 0
    ELSE LET l == Height(nl, NodeAt(nl, Unwrap(o)).left, fuel - 1)
             r == Height(nl, NodeAt(nl, Unwrap(o)).right, fuel - 1)
         IN  1 + (IF l >= r THEN l ELSE r)

\* the height of the tree of tl
HeightOf(tl) == Height(tl.nl, Some(tl.root), Len(tl.nl) + 1)

\* C27: in every state with n >= 1 elements that from_data, push, insert or
\* insert_or_push returned, the longest path from the root to an absent child
\* has h nodes with 2^h <= (n + 1)^2.
C27_LogarithmicHeight ==
    (fault = "none" /\ len >= 1) => 2 ^ HeightOf(TL) <= (len + 1) * (len + 1)

\* a list of MaxDeep elements grown by insertions that rotated, three levels
\* shorter than a chain of its nodes
C27_Witness ==
    /\ fault = "none" /\ len = MaxDeep /\ call.fn = "insert" /\ Took("rotate")
    /\ HeightOf(TL) <= MaxDeep - 3
    /\ 2 ^ HeightOf(TL) <= (len + 1) * (len + 1)

\* ------------------------------------------------------------- C25
\* how often the last call took the step `what`
TimesTook(what) == Cardinality({i \in DOMAIN call.ev : call.ev[i] = what})

\* the passes of the repair loop of the last call: recolourings, then at most
\* one uncle-Black pass, which rotates at the parent (case 2) at most once,
\* rotates at the grandparent (case 3) and is the last pass
RepairEndsAtCase3 ==
    \A i \in DOMAIN call.ev :
        /\ call.ev[i] = "case2"
               => (i + 2 <= Len(call.ev) /\ call.ev[i + 1] = "rotate"
                                         /\ call.ev[i + 2] = "case3")
        /\ call.ev[i] = "case3"
               => (i + 1 = Len(call.ev) /\ call.ev[i + 1] = "rotate")
        /\ call.ev[i] \in {"case1", "case2", "case3", "rotate"}

\* C25: an insert into a list that holds an element rotates at most twice in
\* insert_fix_up; the pass that rotates at the grandparent is the last one, the
\* loop test that follows finding no Red parent above a Red node, and the root
\* is Black when insert_fix_up returns.
C25_BoundedRepair ==
    (fault = "none" /\ call.fn = "insert" /\ len >= 2)
        => /\ TimesTook("rotate") <= 2
           /\ RepairEndsAtCase3
           /\ NoRedRed(TL)
           /\ RootIsBlack(TL)

\* an insertion that recoloured, rotated at the parent and then at the
\* grandparent, and stopped there
C25_Witness ==
    /\ fault = "none" /\ call.fn = "insert" /\ len >= 2
    /\ Took("case1") /\ Took("case2") /\ TimesTook("rotate") = 2
    /\ call.ev[Len(call.ev)] = "rotate"
    /\ RootIsBlack(TL)

\* ------------------------------------------------------------- C23
\* every node of the arena `before` is in the same slot of the arena `after`,
\* with the payload it had
PayloadsStay(before, after) ==
    \A k \in Occupied(before) :
        /\ ValidHandle(after, k)
        /\ NodeAt(after, k).data = NodeAt(before, k).data

\* C23: an element stored in slot k by from_data, push or insert is in slot k
\* with the same payload after every later push, insert and insert_or_push,
\* whatever rotations, recolourings and arena growth the call went through.
C23_HandleStability ==
    [][PayloadsStay(node_list, node_list')]_vars

\* the elements from_data stored in slots 0..MaxLen are still there after later
\* insertions, the last of which rotated twice and an earlier one grew the arena
C23_Witness ==
    /\ fault = "none" /\ call.fn = "insert" /\ len > MaxLen + 1 /\ capacity > len
    /\ TimesTook("rotate") = 2
    /\ \A k \in 0..MaxLen : ValidHandle(node_list, k) /\ NodeAt(node_list, k).data = k

\* ------------------------------------------------------------- rotations alone
\* left_rotate and right_rotate are private; tests::test_rotations calls them
\* on a list it has built, and so do the steps below.
\* the list as a rotation receives it
RotState == [nl |-> node_list, root |-> root_idx, fault |-> "none", ev |-> <<>>]

\* the state after a rotation at h that returned r = [nl, root, fault, ev]
Rotated(r, fn, h) ==
    /\ node_list' = r.nl
    /\ root_idx' = r.root
    /\ fault' = r.fault
    /\ call' = [fn |-> fn, index |-> h, ev |-> r.ev]
    /\ UNCHANGED <<free_list, cfg_test, vec, narrow, it>>

\* a list of up to MaxRot elements, built before any rotation is tried
InitRotate ==
    /\ cfg_test \in BOOLEAN
    /\ \/ \E c \in 0..MaxCap :
              \E tl \in {with_capacity(c)} : Constructed(tl, "with_capacity", c, <<>>)
       \/ \E n \in 0..MaxRot :
              \E tl \in {from_data(RangeSeq(0, n))} :
                  Constructed(tl, "from_data", n, RangeSeq(0, n))

\* push on a list no rotation has been applied to yet
PushUnrotated ==
    /\ fault = "none"
    /\ call.fn \notin {"left_rotate", "right_rotate"}
    /\ len < MaxRot
    /\ \E r \in {push(TL, NextElem, cfg_test)} :
           Mutated(r, IF len = 0 THEN "push" ELSE "insert", len, NextElem)

\* left_rotate(h) for a slot h that holds a node
LeftRotate ==
    /\ fault = "none"
    /\ \E h \in Occupied(node_list) :
           \E r \in {left_rotate(RotState, h, cfg_test)} : Rotated(r, "left_rotate", h)

\* right_rotate(h) for a slot h that holds a node
RightRotate ==
    /\ fault = "none"
    /\ \E h \in Occupied(node_list) :
           \E r \in {right_rotate(RotState, h, cfg_test)} : Rotated(r, "right_rotate", h)

NextRotate ==
    \/ PushUnrotated
    \/ LeftRotate
    \/ RightRotate

\* lists built by from_data and push, then rotated at will
SpecRotate == InitRotate /\ [][NextRotate]_vars


\* ------------------------------------------------------------- C21
\* the two rotations: the link of h that holds the pivot, and the link of the
\* pivot that holds the grandchild handed over to h
Rotations ==
    {[fn |-> "left_rotate", pivot |-> "right", inner |-> "left"],
     [fn |-> "right_rotate", pivot |-> "left", inner |-> "right"]}

\* the rotation k applied at h
Rotate(k, s, h, test) ==
    IF k.fn = "left_rotate" THEN left_rotate(s, h, test) ELSE right_rotate(s, h, test)

\* the payloads met in order (left subtree, node, right subtree) below the link
\* o, followed at most `fuel` levels
RECURSIVE InOrder(_, _, _)
InOrder(nl, o, fuel) ==
    IF ~IsSome(o) \/ fuel = 0 THEN <<>>
    ELSE IF Unwrap(o) >= Len(nl) \/ ~IsSome(Slot(nl, Unwrap(o))) THEN <<>>
    ELSE InOrder(nl, NodeAt(nl, Unwrap(o)).left, fuel - 1)
             \o <<NodeAt(nl, Unwrap(o)).data>>
             \o InOrder(nl, NodeAt(nl, Unwrap(o)).right, fuel - 1)

\* the elements of the list tl in tree order
ElementsOf(nl, root) == InOrder(nl, Some(root), Len(nl) + 1)

\* size == size(left) + size(right) + 1 at node i
SizeAddsUpAt(nl, i) ==
    NodeAt(nl, i).size
        = get_child_size(nl, i, "Left") + get_child_size(nl, i, "Right") + 1

\* the slots h of tl that hold a node with the pivot child of rotation k
CanRotate(tl, k) == {h \in Occupied(tl.nl) : IsSome(NodeAt(tl.nl, h)[k.pivot])}

\* the list tl is a tree with right sizes
WellFormed(tl) == LinksFormTree(tl) /\ SizesAddUp(tl)

\* what rotation k at h makes of tl, y being the pivot child of h
RotationCorrect(tl, k, h, test) ==
    LET n == NodeAt(tl.nl, h)
        y == Unwrap(n[k.pivot])
        g == NodeAt(tl.nl, y)[k.inner]
        r == Rotate(k, [nl |-> tl.nl, root |-> tl.root, fault |-> "none", ev |-> <<>>],
                    h, test)
    IN  /\ r.fault = "none"
        /\ ElementsOf(r.nl, r.root) = ElementsOf(tl.nl, tl.root)
        /\ NodeAt(r.nl, y).parent = n.parent
        /\ IF IsSome(n.parent)
           THEN LET p == NodeAt(tl.nl, Unwrap(n.parent))
                    q == NodeAt(r.nl, Unwrap(n.parent))
                IN  /\ r.root = tl.root
                    /\ p.left = Some(h) => q.left = Some(y)
                    /\ p.right = Some(h) => q.right = Some(y)
           ELSE r.root = y
        /\ NodeAt(r.nl, h).parent = Some(y)
        /\ NodeAt(r.nl, y)[k.inner] = Some(h)
        /\ NodeAt(r.nl, h)[k.pivot] = g
        /\ IsSome(g) => NodeAt(r.nl, Unwrap(g)).parent = Some(h)
        /\ SizeAddsUpAt(r.nl, h)
        /\ SizeAddsUpAt(r.nl, y)
        /\ WellFormed([nl |-> r.nl, fl |-> tl.fl, root |-> r.root])

\* C21: in a well-formed tree, left_rotate at a node h with a right child and
\* right_rotate at a node h with a left child keep the in-order sequence of the
\* elements, give the pivot the former parent of h (the root handle when h was
\* the root), make h the child of the pivot, hand the inner grandchild over to
\* h with its parent link set to h, and leave h.size and pivot.size equal to
\* 1 + size(left) + size(right).
C21_RotationCorrect ==
    (fault = "none" /\ len >= 1 /\ WellFormed(TL))
        => \A k \in Rotations :
               \A h \in CanRotate(TL, k) : RotationCorrect(TL, k, h, cfg_test)

\* left_rotate at the root of a tree of MaxRot nodes has made the right child
\* the root, with the old root as its left child and the elements in order
C21_Witness ==
    /\ fault = "none" /\ len = MaxRot
    /\ call.fn = "left_rotate" /\ call.ev = <<"rotate">>
    /\ NodeAt(node_list, root_idx).parent = None
    /\ NodeAt(node_list, root_idx).left = Some(call.index)
    /\ NodeAt(node_list, call.index).parent = Some(root_idx)
    /\ ElementsOf(node_list, root_idx) = vec
    /\ WellFormed(TL)


\* ------------------------------------------------------------- C22
\* the slots a rotation k at h may write: h, its pivot child, the parent of h
\* and the inner grandchild
Touched(nl, k, h) ==
    LET n == NodeAt(nl, h)
        y == Unwrap(n[k.pivot])
        g == NodeAt(nl, y)[k.inner]
    IN  {h, y} \cup (IF IsSome(n.parent) THEN {Unwrap(n.parent)} ELSE {})
               \cup (IF IsSome(g) THEN {Unwrap(g)} ELSE {})

\* what the rotation k at h left alone on the way from (nl, root) to (nl2, root2)
Frame(nl, root, nl2, root2, k, h) ==
    LET n == NodeAt(nl, h)
        y == Unwrap(n[k.pivot])
        g == NodeAt(nl, y)[k.inner]
    IN  /\ Len(nl2) = Len(nl)
        /\ \A i \in (0..(Len(nl) - 1)) \ Touched(nl, k, h) : Slot(nl2, i) = Slot(nl, i)
        /\ \A i \in Occupied(nl) :
               /\ IsSome(Slot(nl2, i))
               /\ NodeAt(nl2, i).color = NodeAt(nl, i).color
               /\ NodeAt(nl2, i).data = NodeAt(nl, i).data
        /\ IF IsSome(n.parent)
           THEN LET p == NodeAt(nl, Unwrap(n.parent))
                    q == NodeAt(nl2, Unwrap(n.parent))
                IN  /\ root2 = root
                    /\ q.parent = p.parent /\ q.size = p.size
                    /\ p.left /= Some(h) => q.left = p.left
                    /\ p.right /= Some(h) => q.right = p.right
           ELSE root2 = y
        /\ IsSome(g) =>
               /\ NodeAt(nl2, Unwrap(g)).left = NodeAt(nl, Unwrap(g)).left
               /\ NodeAt(nl2, Unwrap(g)).right = NodeAt(nl, Unwrap(g)).right
               /\ NodeAt(nl2, Unwrap(g)).size = NodeAt(nl, Unwrap(g)).size

\* C22: a rotation at h that returns writes only the links and size of h and of
\* its pivot child, the child link of h's parent that held h (or the root
\* handle), and the parent link of the grandchild handed over; colours,
\* payloads, every other node, the free list and the capacity stay as they were.
C22_RotationFrame ==
    [][(call'.fn \in {"left_rotate", "right_rotate"} /\ fault' = "none")
          => /\ free_list' = free_list
             /\ \A k \in {r \in Rotations : r.fn = call'.fn} :
                    IF call'.index \in CanRotate(TL, k)
                    THEN Frame(node_list, root_idx, node_list', root_idx', k, call'.index)
                    ELSE node_list' = node_list /\ root_idx' = root_idx]_vars

\* right_rotate at a node h below the root has handed a grandchild over to h,
\* in an arena that has free slots
C22_Witness ==
    /\ fault = "none" /\ call.fn = "right_rotate" /\ call.ev = <<"rotate">>
    /\ capacity > len
    /\ IsSome(NodeAt(node_list, call.index).left)
    /\ IsSome(NodeAt(node_list, call.index).parent)
    /\ IsSome(NodeAt(node_list, Unwrap(NodeAt(node_list, call.index).parent)).parent)


\* ------------------------------------------------------------- C26
\* the rotation that mirrors k
Opposite(k) == The({r \in Rotations : r.fn /= k.fn})

\* rotation k at h, then the mirrored rotation at the pivot y that took h's
\* place, gives back the arena and the root handle of tl
RoundTrip(tl, k, h, test) ==
    LET y  == Unwrap(NodeAt(tl.nl, h)[k.pivot])
        s1 == Rotate(k, [nl |-> tl.nl, root |-> tl.root, fault |-> "none", ev |-> <<>>],
                     h, test)
        s2 == Rotate(Opposite(k), s1, y, test)
    IN  /\ s1.fault = "none"
        /\ s1.nl /= tl.nl
        /\ s2.fault = "none"
        /\ s2.nl = tl.nl
        /\ s2.root = tl.root

\* C26: in a well-formed tree where h has a right child y, left_rotate(h)
\* followed by right_rotate(y) gives back every node's links, size and colour
\* and the root handle; so does right_rotate(h) followed by left_rotate(y) where
\* h has a left child y.
C26_RotationRoundTrip ==
    (fault = "none" /\ len >= 1 /\ WellFormed(TL))
        => \A k \in Rotations :
               \A h \in CanRotate(TL, k) : RoundTrip(TL, k, h, cfg_test)

\* right_rotate has brought a rotated list back to the tree from_data built
C26_Witness ==
    /\ fault = "none" /\ call.fn = "right_rotate" /\ call.ev = <<"rotate">>
    /\ len = MaxRot
    /\ node_list = from_data(RangeSeq(0, MaxRot)).nl
    /\ root_idx = from_data(RangeSeq(0, MaxRot)).root

====
